---- MODULE Spec2Model ----
(***************************************************************************)
(* Model of the Wordle core: the guess scorer, the guess validation and    *)
(* the keyboard merge of wordle/utils.py, the word list of                 *)
(* wordle/word_list.py and the game of wordle/game.py.                     *)
(*                                                                         *)
(* A Python str is a sequence of one-character strings.  A Python list is  *)
(* a sequence.  None inside a list of characters is the string "None",     *)
(* which is no character.  A call's outcome is a record: exc names the     *)
(* exception that left the call ("none" when it returned) and value is     *)
(* what it returned.                                                       *)
(***************************************************************************)
EXTENDS Integers, Sequences, FiniteSets, TLC

VARIABLES
    guess,          \* calculate_guess_result: argument guess
    target,         \* calculate_guess_result: argument target_word
    outcome,        \* calculate_guess_result: how the call ended
    spc,            \* scorer: "call" before the call, "returned" after it,
                    \* "idle" where the scorer is not exercised
    raw,            \* WordList.__init__: argument words
    words,          \* WordList.words
    word_set,       \* WordList.word_set
    printed,        \* what _validate_word_list printed: <<>> or <<count>>
    chosen,         \* get_random_word: how the last call ended
    answer,         \* the last query of the word list: the method, its
                    \* argument and how the call ended
    wpc,            \* word list: "new" before WordList(raw), "built" after it,
                    \* "picked" after a get_random_word, "idle" where no
                    \* word list is exercised
    used_letters,   \* the keyboard state: the dict update_used_letters fills
    received,       \* history: the statuses each key was merged with so far
    latest,         \* history: the statuses each key got in the last merge
    before,         \* history: used_letters as it was before the last merge
    target_word,    \* WordleGame.target_word, as get_random_word returned it
    guesses,        \* WordleGame.guesses
    results,        \* WordleGame.results
    attempts,       \* WordleGame.attempts
    game_won,       \* WordleGame.game_won
    stats,          \* WordleGame.stats
    stats_file,     \* the file data/wordle_stats.json
    typed,          \* the last line typed at a prompt
    gpc,            \* game: "new" before WordleGame(raw), "play" where play
                    \* starts a game, "guess" at the prompt for a guess,
                    \* "again" at the prompt "Play again?", "done" after
                    \* play, "idle" where no game is exercised
    failure,        \* the exception that ended play, "none" if none did
    ending,         \* history: how the game in hand ended, "none" while
                    \* it runs
    calls,          \* history: the calls of update_statistics in the game
                    \* in hand, each <<won, attempts>>
    games           \* history: the games started so far

scoreVars == <<guess, target, outcome, spc>>
listVars == <<raw, words, word_set, printed, chosen, answer, wpc>>
keyVars == <<used_letters, received, latest, before>>
gameVars == <<target_word, guesses, results, attempts, game_won, stats,
              stats_file, typed, gpc, failure, ending, calls, games>>
vars == <<guess, target, outcome, spc, raw, words, word_set, printed, chosen,
          answer, wpc, used_letters, received, latest, before,
          target_word, guesses, results, attempts, game_won, stats,
          stats_file, typed, gpc, failure, ending, calls, games>>

(***************************************************************************)
(* Bounds of the model.                                                    *)
(***************************************************************************)
\* how many distinct letters the scored words are drawn from
NumLetters == 3
\* longest string handed to the scorer outside its precondition
MaxLen == 6
\* longest raw list handed to WordList
MaxRaw == 3
\* how many games are started on one statistics file, all sessions together
MaxGames == 2
\* longest prefix asked of get_words_starting_with, short of a whole word
MaxPrefix == 2
\* largest count asked of get_most_common_letters and get_sample_words
MaxCount == 4
\* length of the guesses merged into the keyboard state
KeyLen == 3

(***************************************************************************)
(* Characters and strings.                                                 *)
(***************************************************************************)
Alphabet == <<"a", "b", "c", "d", "e", "f", "q", "y">>
Letters == {Alphabet[k] : k \in 1..NumLetters}
LowerCase == {"a", "b", "c", "d", "e", "f", "q", "y"}
UpperCase == {"A", "B", "C", "D", "E", "F", "Q", "Y"}
NoneCh == "None"

Range(s) == {s[k] : k \in 1..Len(s)}

\* number of positions of s holding c
Count(c, s) == Cardinality({k \in 1..Len(s) : s[k] = c})

Min(x, y) == IF x <= y THEN x ELSE y

\* str.lower() on one character and on a string
UpperAlphabet == <<"A", "B", "C", "D", "E", "F", "Q", "Y">>
LowerCh(c) ==
    IF \E k \in 1..Len(UpperAlphabet) : UpperAlphabet[k] = c
    THEN Alphabet[CHOOSE k \in 1..Len(UpperAlphabet) : UpperAlphabet[k] = c]
    ELSE c
Lower(s) == [k \in 1..Len(s) |-> LowerCh(s[k])]

\* str.upper() on one character and on a string
UpperCh(c) ==
    IF \E k \in 1..Len(Alphabet) : Alphabet[k] = c
    THEN UpperAlphabet[CHOOSE k \in 1..Len(Alphabet) : Alphabet[k] = c]
    ELSE c
Upper(s) == [k \in 1..Len(s) |-> UpperCh(s[k])]

\* str.strip(): leading and trailing whitespace removed, that is, what stands
\* from the first to the last character that is not whitespace
Whitespace == {" "}
Strip(s) ==
    LET solid == {k \in 1..Len(s) : s[k] \notin Whitespace}
    IN IF solid = {} THEN <<>>
       ELSE SubSeq(s, CHOOSE k \in solid : \A h \in solid : k <= h,
                      CHOOSE k \in solid : \A h \in solid : k >= h)

\* str.isalpha(): at least one character and every character a letter
IsAlpha(s) == Len(s) > 0 /\ \A k \in 1..Len(s) : s[k] \in LowerCase \cup UpperCase

(***************************************************************************)
(* wordle/utils.py: calculate_guess_result                                 *)
(***************************************************************************)
\* the 5 of `['not_in_word'] * 5` and of every `range(5)` of the scorer
ScoreLen == 5

\* result = ['not_in_word'] * 5; target_letters = list(target_word);
\* guess_letters = list(guess)
ScoreStart(g, t) ==
    [result |-> [k \in 1..ScoreLen |-> "not_in_word"],
     target_letters |-> t,
     guess_letters |-> g,
     exc |-> "none"]

\* `for i in range(4)`: the last position is never compared
RECURSIVE FirstPassShort(_, _)
FirstPassShort(st, i) ==
    IF i > ScoreLen - 1 THEN st
    ELSE IF i > Len(st.guess_letters) \/ i > Len(st.target_letters)
    THEN [st EXCEPT !.exc = "IndexError"]
    ELSE IF st.guess_letters[i] = st.target_letters[i]
    THEN FirstPassShort([st EXCEPT !.result[i] = "correct",
                                   !.target_letters[i] = NoneCh,
                                   !.guess_letters[i] = NoneCh], i + 1)
    ELSE FirstPassShort(st, i + 1)

\* a position beyond the end of either list is skipped instead of raising
RECURSIVE FirstPassLenient(_, _)
FirstPassLenient(st, i) ==
    IF i > ScoreLen THEN st
    ELSE IF i > Len(st.guess_letters) \/ i > Len(st.target_letters)
    THEN FirstPassLenient(st, i + 1)
    ELSE IF st.guess_letters[i] = st.target_letters[i]
    THEN FirstPassLenient([st EXCEPT !.result[i] = "correct",
                                     !.target_letters[i] = NoneCh,
                                     !.guess_letters[i] = NoneCh], i + 1)
    ELSE FirstPassLenient(st, i + 1)

\* First pass, `for i in range(5)` from position i on (positions count from 1
\* here).  Indexing a list beyond its end raises IndexError and ends the call.
RECURSIVE FirstPass(_, _)
FirstPass(st, i) ==
    IF i > ScoreLen THEN st
    ELSE IF i > Len(st.guess_letters) \/ i > Len(st.target_letters)
    THEN [st EXCEPT !.exc = "IndexError"]
    ELSE IF st.guess_letters[i] = st.target_letters[i]
    THEN FirstPass([st EXCEPT !.result[i] = "correct",
                              !.target_letters[i] = NoneCh,
                              !.guess_letters[i] = NoneCh], i + 1)
    ELSE FirstPass(st, i + 1)

\* `c not in target_letters`
InTargetNegated(c, tl) == ~(\E j \in 1..Len(tl) : tl[j] = c)

\* `guess_letters[i] in target_letters`: any position of the list
InTarget(c, tl) == \E j \in 1..Len(tl) : tl[j] = c

\* `for j in range(5): if target_letters[j] == guess_letters[i]: ...; break`,
\* entered only when c is in target_letters: the first of the five positions
\* holding c, 0 when c is only beyond them (the loop then ends without a hit)
FirstOccurrence(c, tl) ==
    LET hits == {j \in 1..Min(ScoreLen, Len(tl)) : tl[j] = c}
    IN IF hits = {} THEN 0 ELSE CHOOSE j \in hits : \A h \in hits : j <= h

\* target_letters after `target_letters[j] = None; break`
Consume(c, tl) ==
    LET j == FirstOccurrence(c, tl)
    IN IF j = 0 THEN tl ELSE [tl EXCEPT ![j] = NoneCh]

\* without `if guess_letters[i] is not None`
RECURSIVE SecondPassNoGuard(_, _)
SecondPassNoGuard(st, i) ==
    IF i > ScoreLen THEN st
    ELSE IF i > Len(st.guess_letters)
    THEN [st EXCEPT !.exc = "IndexError"]
    ELSE IF InTarget(st.guess_letters[i], st.target_letters)
    THEN SecondPassNoGuard(
             [st EXCEPT !.result[i] = "wrong_position",
                        !.target_letters = Consume(st.guess_letters[i], @)],
             i + 1)
    ELSE SecondPassNoGuard(st, i + 1)

\* without the inner loop that uses up an occurrence of the target
RECURSIVE SecondPassNoConsume(_, _)
SecondPassNoConsume(st, i) ==
    IF i > ScoreLen THEN st
    ELSE IF i > Len(st.guess_letters)
    THEN [st EXCEPT !.exc = "IndexError"]
    ELSE IF st.guess_letters[i] # NoneCh
            /\ InTarget(st.guess_letters[i], st.target_letters)
    THEN SecondPassNoConsume([st EXCEPT !.result[i] = "wrong_position"], i + 1)
    ELSE SecondPassNoConsume(st, i + 1)

\* `for i in reversed(range(5))`: step i visits position 6 - i
RECURSIVE SecondPassRightToLeft(_, _)
SecondPassRightToLeft(st, i) ==
    LET p == ScoreLen + 1 - i
    IN IF i > ScoreLen THEN st
       ELSE IF p > Len(st.guess_letters)
       THEN [st EXCEPT !.exc = "IndexError"]
       ELSE IF st.guess_letters[p] # NoneCh
               /\ InTarget(st.guess_letters[p], st.target_letters)
       THEN SecondPassRightToLeft(
                [st EXCEPT !.result[p] = "wrong_position",
                           !.target_letters = Consume(st.guess_letters[p], @)],
                i + 1)
       ELSE SecondPassRightToLeft(st, i + 1)

\* Second pass, `for i in range(5)` from position i on.
RECURSIVE SecondPass(_, _)
SecondPass(st, i) ==
    IF i > ScoreLen THEN st
    ELSE IF i > Len(st.guess_letters)
    THEN [st EXCEPT !.exc = "IndexError"]
    ELSE IF st.guess_letters[i] # NoneCh
            /\ InTarget(st.guess_letters[i], st.target_letters)
    THEN SecondPass(
             [st EXCEPT !.result[i] = "wrong_position",
                        !.target_letters = Consume(st.guess_letters[i], @)],
             i + 1)
    ELSE SecondPass(st, i + 1)

\* the whole call: both passes, then `return result`
calculate_guess_result(g, t) ==
    LET first == FirstPass(ScoreStart(g, t), 1)
        second == IF first.exc = "none" THEN SecondPass(first, 1) ELSE first
    IN IF second.exc # "none"
       THEN [exc |-> second.exc, value |-> <<>>]
       ELSE [exc |-> "none", value |-> second.result]

(***************************************************************************)
(* The scorer applied to every pair of inputs.                             *)
(***************************************************************************)
Strings(alphabet, lo, hi) == UNION {[1..n -> alphabet] : n \in lo..hi}

\* the words of the scorer's precondition
ScoreWords == [1..ScoreLen -> Letters]

\* strings of other lengths too, over two letters
LooseStrings == Strings({"a", "b"}, 0, MaxLen)

ScoreInputs == (ScoreWords \X ScoreWords) \cup (LooseStrings \X LooseStrings)

\* no call of calculate_guess_result yet
NotCalled == [exc |-> "none", value |-> <<>>]
\* no call of get_random_word yet
NotPicked == [exc |-> "none", none |-> FALSE, value |-> <<>>]
\* no query of the word list yet
NotAsked == [op |-> "none", arg |-> <<>>, exc |-> "none", value |-> <<>>]
\* the keys of the keyboard state
Keys == {"A", "B"}
\* the empty dict, a dict being a function on its keys where their order
\* is of no account
EmptyDict == [key \in {} |-> "not_in_word"]

\* the 6 of `self.max_attempts = 6` and of the keys 1..6 of the histogram
max_attempts == 6

\* A key of the histogram is a pair: <<"int", n>> is the int n and
\* <<"str", n>> is the str of the digits of n.
IntKey(n) == <<"int", n>>
StrKey(n) == <<"str", n>>

\* the default statistics of load_statistics
DefaultStatistics ==
    [games_played |-> 0, games_won |-> 0, current_streak |-> 0,
     max_streak |-> 0,
     guess_distribution |-> [key \in {IntKey(n) : n \in 1..max_attempts} |-> 0]]

\* no file data/wordle_stats.json
NoFile == [exists |-> FALSE, content |-> <<>>]

\* target_word = None
NoTarget == [exc |-> "none", none |-> TRUE, value |-> <<>>]

GameIdle ==
    /\ target_word = NoTarget
    /\ guesses = <<>>
    /\ results = <<>>
    /\ attempts = 0
    /\ game_won = FALSE
    /\ stats = DefaultStatistics
    /\ stats_file = NoFile
    /\ typed = <<>>
    /\ gpc = "idle"
    /\ failure = "none"
    /\ ending = "none"
    /\ calls = <<>>
    /\ games = 0

KeyIdle ==
    /\ used_letters = EmptyDict
    /\ received = [key \in Keys |-> {}]
    /\ latest = [key \in Keys |-> {}]
    /\ before = EmptyDict

ListIdle ==
    /\ raw = <<>>
    /\ words = <<>>
    /\ word_set = {}
    /\ printed = <<>>
    /\ chosen = NotPicked
    /\ answer = NotAsked
    /\ wpc = "idle"

ScoreInit ==
    /\ \E p \in ScoreInputs : guess = p[1] /\ target = p[2]
    /\ outcome = NotCalled
    /\ spc = "call"
    /\ ListIdle
    /\ KeyIdle
    /\ GameIdle

Score ==
    /\ spc = "call"
    /\ outcome' = calculate_guess_result(guess, target)
    /\ spc' = "returned"
    /\ UNCHANGED <<guess, target>>
    /\ UNCHANGED listVars
    /\ UNCHANGED keyVars
    /\ UNCHANGED gameVars

ScoreNext == Score

SpecScore == ScoreInit /\ [][ScoreNext]_vars

(***************************************************************************)
(* wordle/word_list.py: WordList                                           *)
(***************************************************************************)
\* the 5 of `len(word) == 5`
WordLen == 5

\* WordList._is_valid_word
IsValidWord(word) ==
    IF Len(word) = 0 THEN FALSE
    ELSE LET w == Strip(Lower(word))
         IN Len(w) = WordLen /\ IsAlpha(w)

\* `word.strip()`
StoredFormNoLower(word) == Strip(word)

\* `word.lower().strip()`, the form __init__ stores
StoredForm(word) == Strip(Lower(word))

\* `[word.lower().strip() for word in words if self._is_valid_word(word)]`
ValidStoredForms(ws) ==
    LET kept == SelectSeq(ws, IsValidWord)
    IN [k \in 1..Len(kept) |-> StoredForm(kept[k])]

\* `[word for word in self.words if self._is_valid_word(word)]`
OnlyValid(ws) == SelectSeq(ws, IsValidWord)

\* WordList._validate_word_list on self.words = ws: the fields it leaves and
\* what it prints
validate_word_list(ws) ==
    LET original_count == Len(ws)
        kept == OnlyValid(ws)
    IN [words |-> kept,
        word_set |-> Range(kept),
        printed |-> IF Len(kept) # original_count
                    THEN <<original_count - Len(kept)>>
                    ELSE <<>>]

\* the comprehension of __init__ with first occurrences only
RECURSIVE Dedup(_)
Dedup(ws) ==
    IF ws = <<>> THEN <<>>
    ELSE LET front == Dedup(SubSeq(ws, 1, Len(ws) - 1))
         IN IF ws[Len(ws)] \in Range(front) THEN front
            ELSE Append(front, ws[Len(ws)])
WordListInitDedup(ws) == validate_word_list(Dedup(ValidStoredForms(ws)))

\* WordList.__init__(words = ws)
WordListInit(ws) == validate_word_list(ValidStoredForms(ws))

\* WordList.get_word_count
get_word_count == Len(words)

NoneReturned == [exc |-> "none", none |-> TRUE, value |-> <<>>]
StrReturned(w) == [exc |-> "none", none |-> FALSE, value |-> w]

\* `random.choice(self.words)` without the check for an empty list
RandomWordNoCheck(ws) ==
    IF ws = <<>> THEN {[exc |-> "IndexError", none |-> FALSE, value |-> <<>>]}
    ELSE {StrReturned(ws[k]) : k \in 1..Len(ws)}

\* WordList.get_random_word on self.words = ws: every way the call can end
RandomWord(ws) ==
    IF ws = <<>> THEN {NoneReturned}
    ELSE {StrReturned(ws[k]) : k \in 1..Len(ws)}

\* `word in self.word_set` once _is_valid_word passed
IsValidWordAsTyped(ws_set, word) ==
    IF ~IsValidWord(word) THEN FALSE
    ELSE word \in ws_set

\* WordList.is_valid_word and WordList.__contains__ on self.word_set = ws_set
is_valid_word(ws_set, word) ==
    IF ~IsValidWord(word) THEN FALSE
    ELSE Strip(Lower(word)) \in ws_set

\* str.startswith
StartsWith(w, p) == Len(p) <= Len(w) /\ SubSeq(w, 1, Len(p)) = p

\* get_words_starting_with with the prefix trimmed as well as lowercased
StartingWithTrimmed(ws, prefix) ==
    LET p == Strip(Lower(prefix))
    IN SelectSeq(ws, LAMBDA word : StartsWith(word, p))

\* get_words_starting_with with the prefix as it was typed
StartingWithAsTyped(ws, prefix) ==
    SelectSeq(ws, LAMBDA word : StartsWith(word, prefix))

\* WordList.get_words_starting_with on self.words = ws
get_words_starting_with(ws, prefix) ==
    LET p == Lower(prefix)
    IN SelectSeq(ws, LAMBDA word : StartsWith(word, p))

\* `s in w` for strings: s stands somewhere in w
Contains(w, s) ==
    \E start \in 1..(Len(w) + 1) :
        /\ start + Len(s) - 1 <= Len(w)
        /\ SubSeq(w, start, start + Len(s) - 1) = s

\* a word listed once for each position that holds the letter c
RECURSIVE Repeated(_, _)
Repeated(w, n) == IF n = 0 THEN <<>> ELSE <<w>> \o Repeated(w, n - 1)
RECURSIVE PerOccurrence(_, _)
PerOccurrence(ws, c) ==
    IF ws = <<>> THEN <<>>
    ELSE Repeated(Head(ws), Count(c, Head(ws))) \o PerOccurrence(Tail(ws), c)
ContainingPerOccurrence(ws, letter) ==
    IF Len(letter) = 1 THEN PerOccurrence(ws, LowerCh(letter[1]))
    ELSE SelectSeq(ws, LAMBDA word : Contains(word, Lower(letter)))

\* WordList.get_words_containing_letter on self.words = ws
get_words_containing_letter(ws, letter) ==
    LET l == Lower(letter)
    IN SelectSeq(ws, LAMBDA word : Contains(word, l))

\* the wildcard of a pattern
Wildcard == "?"

\* get_words_with_pattern without its test of the pattern's length
PatternOfAnyLength(ws, pattern) ==
    LET p == Lower(pattern)
    IN SelectSeq(ws, LAMBDA word :
           /\ Len(word) = WordLen
           /\ \A i \in 1..Min(Len(p), Len(word)) :
                  ~(p[i] # Wildcard /\ word[i] # p[i]))

\* WordList.get_words_with_pattern on self.words = ws
get_words_with_pattern(ws, pattern) ==
    IF Len(pattern) # WordLen THEN <<>>
    ELSE LET p == Lower(pattern)
         IN SelectSeq(ws, LAMBDA word :
                /\ Len(word) = WordLen
                /\ \A i \in 1..Len(p) :
                       ~(p[i] # Wildcard /\ word[i] # p[i]))

\* A dict is the sequence of its (key, value) pairs in the order the keys
\* were first set, the order in which Python iterates it.
\* `frequency[letter] = frequency.get(letter, 0) + 1`
Tally(frequency, letter) ==
    IF \E k \in 1..Len(frequency) : frequency[k][1] = letter
    THEN [k \in 1..Len(frequency) |->
              IF frequency[k][1] = letter
              THEN <<letter, frequency[k][2] + 1>>
              ELSE frequency[k]]
    ELSE Append(frequency, <<letter, 1>>)

\* `for letter in word:` from the i-th letter on
RECURSIVE TallyWord(_, _, _)
TallyWord(frequency, word, i) ==
    IF i > Len(word) THEN frequency
    ELSE TallyWord(Tally(frequency, word[i]), word, i + 1)

\* the same loop over set(word): a letter counts once for a word
RECURSIVE TallyWordOnce(_, _, _)
TallyWordOnce(frequency, word, i) ==
    IF i > Len(word) THEN frequency
    ELSE IF \E h \in 1..(i - 1) : word[h] = word[i]
         THEN TallyWordOnce(frequency, word, i + 1)
         ELSE TallyWordOnce(Tally(frequency, word[i]), word, i + 1)

RECURSIVE FrequencyPerWord(_)
FrequencyPerWord(ws) ==
    IF ws = <<>> THEN <<>>
    ELSE TallyWordOnce(FrequencyPerWord(SubSeq(ws, 1, Len(ws) - 1)),
                       ws[Len(ws)], 1)

\* WordList.get_word_frequency on self.words = ws
RECURSIVE get_word_frequency(_)
get_word_frequency(ws) ==
    IF ws = <<>> THEN <<>>
    ELSE TallyWord(get_word_frequency(SubSeq(ws, 1, Len(ws) - 1)),
                   ws[Len(ws)], 1)

Max(x, y) == IF x >= y THEN x ELSE y

\* `s[:count]`: the first count items, all but the last -count for count < 0
SliceTo(s, count) ==
    IF count >= 0 THEN SubSeq(s, 1, Min(count, Len(s)))
    ELSE SubSeq(s, 1, Max(0, Len(s) + count))

\* one item put into a sequence sorted by count, descending, ahead of the
\* items of the same count
InsertAheadOfEqual(sorted, item) ==
    LET notGreater == {k \in 1..Len(sorted) : sorted[k][2] <= item[2]}
        at == IF notGreater = {} THEN Len(sorted) + 1
              ELSE CHOOSE k \in notGreater : \A h \in notGreater : k <= h
    IN SubSeq(sorted, 1, at - 1) \o <<item>> \o SubSeq(sorted, at, Len(sorted))

\* one item put into a sequence sorted by count, descending, behind the
\* items of the same count
InsertByCount(sorted, item) ==
    LET smaller == {k \in 1..Len(sorted) : sorted[k][2] < item[2]}
        at == IF smaller = {} THEN Len(sorted) + 1
              ELSE CHOOSE k \in smaller : \A h \in smaller : k <= h
    IN SubSeq(sorted, 1, at - 1) \o <<item>> \o SubSeq(sorted, at, Len(sorted))

\* `sorted(items, key=lambda x: x[1], reverse=True)`: a stable sort, items of
\* equal count stay in the order they came in
RECURSIVE SortedByCount(_)
SortedByCount(items) ==
    IF items = <<>> THEN <<>>
    ELSE InsertByCount(SortedByCount(SubSeq(items, 1, Len(items) - 1)),
                       items[Len(items)])

\* get_most_common_letters without the sort
MostCommonUnsorted(ws, count) == SliceTo(get_word_frequency(ws), count)

\* WordList.get_most_common_letters on self.words = ws
get_most_common_letters(ws, count) ==
    LET frequency == get_word_frequency(ws)
        sorted_letters == SortedByCount(frequency)
    IN SliceTo(sorted_letters, count)

\* the orders in which count items at distinct positions of ws can be drawn
Samples(ws, count) ==
    {[j \in 1..count |-> ws[f[j]]] :
         f \in {g \in [1..count -> 1..Len(ws)] :
                    \A i, j \in 1..count : g[i] = g[j] => i = j}}

\* WordList.get_sample_words on self.words = ws: every way the call can end
get_sample_words(ws, count) ==
    IF count >= Len(ws) THEN {[exc |-> "none", value |-> ws]}
    ELSE IF count < 0 THEN {[exc |-> "ValueError", value |-> <<>>]}
    ELSE {[exc |-> "none", value |-> s] : s \in Samples(ws, count)}

(***************************************************************************)
(* wordle/utils.py: validate_guess                                         *)
(***************************************************************************)
\* validate_guess with the test for letters ahead of the test for length
ValidateGuessLettersFirst(ws_set, g) ==
    IF Len(g) = 0 THEN <<FALSE, "Please enter a word.">>
    ELSE IF ~IsAlpha(g) THEN <<FALSE, "Word must contain only letters.">>
    ELSE IF Len(g) # 5 THEN <<FALSE, "Word must be exactly 5 letters long.">>
    ELSE IF ~is_valid_word(ws_set, g)
         THEN <<FALSE, "Word not found in the word list.">>
    ELSE <<TRUE, "">>

\* validate_guess(guess = g, word_list) where word_list.word_set = ws_set
validate_guess(ws_set, g) ==
    IF Len(g) = 0 THEN <<FALSE, "Please enter a word.">>
    ELSE IF Len(g) # 5 THEN <<FALSE, "Word must be exactly 5 letters long.">>
    ELSE IF ~IsAlpha(g) THEN <<FALSE, "Word must contain only letters.">>
    ELSE IF ~is_valid_word(ws_set, g)
         THEN <<FALSE, "Word not found in the word list.">>
    ELSE <<TRUE, "">>

(***************************************************************************)
(* A word list built from every raw list and then asked for a random word. *)
(***************************************************************************)
W1 == <<"a", "b", "b", "a", "a">>
W2 == <<"b", "a", "b", "a", "b">>
W3 == <<"a", "a", "b", "b", "b">>
RawStrings ==
    {W1, <<"A", "B", "B", "A", "A">>, <<" ">> \o W1 \o <<" ">>,
     W2, <<"B", "a", "b", "a", "b">>, W3,
     <<>>, <<"a", "b", "b">>, <<"a", "b", "b", "a", "a", "b">>,
     <<"a", "b", "1", "a", "a">>, <<"a", "b", " ", "a", "a">>,
     <<" ", " ", " ", " ", " ">>, <<" ", "a", "b", "b", " ">>}

RawLists == UNION {[1..n -> RawStrings] : n \in 0..MaxRaw}

ScoreIdle ==
    /\ guess = <<>>
    /\ target = <<>>
    /\ outcome = NotCalled
    /\ spc = "idle"

ListInit ==
    /\ raw \in RawLists
    /\ words = <<>>
    /\ word_set = {}
    /\ printed = <<>>
    /\ chosen = NotPicked
    /\ answer = NotAsked
    /\ wpc = "new"
    /\ ScoreIdle
    /\ KeyIdle
    /\ GameIdle

\* word_list = WordList(raw)
Construct ==
    /\ wpc = "new"
    /\ \E built \in {WordListInit(raw)} :
           /\ words' = built.words
           /\ word_set' = built.word_set
           /\ printed' = built.printed
    /\ wpc' = "built"
    /\ UNCHANGED <<raw, chosen, answer>>
    /\ UNCHANGED scoreVars
    /\ UNCHANGED keyVars
    /\ UNCHANGED gameVars

\* word_list.get_random_word()
GetRandomWord ==
    /\ wpc \in {"built", "picked"}
    /\ chosen' \in RandomWord(words)
    /\ wpc' = "picked"
    /\ UNCHANGED <<raw, words, word_set, printed, answer>>
    /\ UNCHANGED scoreVars
    /\ UNCHANGED keyVars
    /\ UNCHANGED gameVars

ListNext == Construct \/ GetRandomWord

SpecList == ListInit /\ [][ListNext]_vars

(***************************************************************************)
(* A word list built from every raw list over a few words and then         *)
(* queried by every method, any number of times.                           *)
(***************************************************************************)
W4 == <<"c", "a", "b", "c", "a">>
QueryRawStrings == {<<" ", "A", "B", "B", "A", "A", " ">>, W2, W3, W4}

QueryRawLists == UNION {[1..n -> QueryRawStrings] : n \in 0..MaxRaw}

\* the strings asked of is_valid_word and validate_guess
WordArgs == RawStrings \cup {W4, <<"C", "a", "b", "c", "a">>}

\* the prefixes asked of get_words_starting_with: short ones in either case,
\* whole words, padded ones and one too long
PrefixArgs ==
    Strings({"a", "b"}, 0, MaxPrefix)
        \cup {<<"A">>, <<"A", "b">>, <<"c">>, <<"C", "a">>, W1, Upper(W2),
              <<" ", "a">>, <<"a", " ">>, <<" ", "a", "b", "b", "a", "a", " ">>,
              <<"a", "b", "b", "a", "a", "b">>}

\* the letters asked of get_words_containing_letter, and one longer string
LetterArgs ==
    {<<"a">>, <<"A">>, <<"b">>, <<"c">>, <<"C">>, <<"d">>, <<"c", "a">>}

\* a prefix followed by wildcards up to the length of a word
Padded(p) == p \o [k \in 1..(WordLen - Len(p)) |-> Wildcard]

\* the prefixes that are letters only and no longer than a word
AlphabeticPrefixes ==
    {p \in PrefixArgs : Len(p) <= WordLen /\ (p = <<>> \/ IsAlpha(p))}

\* the patterns asked of get_words_with_pattern: every padded prefix,
\* patterns with wildcards ahead of letters, and patterns of other lengths
PatternArgs ==
    {Padded(p) : p \in AlphabeticPrefixes}
        \cup {<<"?", "A", "?", "a", "?">>, <<"?", "?", "b", "?", "?">>,
              <<"?", "?", "?", "c", "a">>, <<"?", "?", "?", "?", "d">>,
              <<>>, <<"a", "?">>, <<"?", "?", "?", "?", "?", "?">>}

\* the counts asked of get_most_common_letters and get_sample_words
CountArgs == (-1)..MaxCount

QueryInit ==
    /\ raw \in QueryRawLists
    /\ words = <<>>
    /\ word_set = {}
    /\ printed = <<>>
    /\ chosen = NotPicked
    /\ answer = NotAsked
    /\ wpc = "new"
    /\ ScoreIdle
    /\ KeyIdle
    /\ GameIdle

\* how a query that returned is recorded
Returns(op, arg, value) ==
    [op |-> op, arg |-> arg, exc |-> "none", value |-> value]

\* word_list.is_valid_word(word), `word in word_list`
IsValidWordCall ==
    /\ wpc \in {"built", "picked"}
    /\ \E word \in WordArgs :
           answer' = Returns("is_valid_word", word, is_valid_word(word_set, word))
    /\ UNCHANGED <<raw, words, word_set, printed, chosen, wpc>>
    /\ UNCHANGED scoreVars
    /\ UNCHANGED keyVars
    /\ UNCHANGED gameVars

\* validate_guess(guess, word_list)
ValidateGuessCall ==
    /\ wpc \in {"built", "picked"}
    /\ \E g \in WordArgs :
           answer' = Returns("validate_guess", g, validate_guess(word_set, g))
    /\ UNCHANGED <<raw, words, word_set, printed, chosen, wpc>>
    /\ UNCHANGED scoreVars
    /\ UNCHANGED keyVars
    /\ UNCHANGED gameVars

\* word_list.get_words_starting_with(prefix)
StartingWithCall ==
    /\ wpc \in {"built", "picked"}
    /\ \E prefix \in PrefixArgs :
           answer' = Returns("get_words_starting_with", prefix,
                             get_words_starting_with(words, prefix))
    /\ UNCHANGED <<raw, words, word_set, printed, chosen, wpc>>
    /\ UNCHANGED scoreVars
    /\ UNCHANGED keyVars
    /\ UNCHANGED gameVars

\* word_list.get_words_containing_letter(letter)
ContainingLetterCall ==
    /\ wpc \in {"built", "picked"}
    /\ \E letter \in LetterArgs :
           answer' = Returns("get_words_containing_letter", letter,
                             get_words_containing_letter(words, letter))
    /\ UNCHANGED <<raw, words, word_set, printed, chosen, wpc>>
    /\ UNCHANGED scoreVars
    /\ UNCHANGED keyVars
    /\ UNCHANGED gameVars

\* word_list.get_words_with_pattern(pattern)
WithPatternCall ==
    /\ wpc \in {"built", "picked"}
    /\ \E pattern \in PatternArgs :
           answer' = Returns("get_words_with_pattern", pattern,
                             get_words_with_pattern(words, pattern))
    /\ UNCHANGED <<raw, words, word_set, printed, chosen, wpc>>
    /\ UNCHANGED scoreVars
    /\ UNCHANGED keyVars
    /\ UNCHANGED gameVars

\* word_list.get_word_frequency()
WordFrequencyCall ==
    /\ wpc \in {"built", "picked"}
    /\ answer' = Returns("get_word_frequency", <<>>, get_word_frequency(words))
    /\ UNCHANGED <<raw, words, word_set, printed, chosen, wpc>>
    /\ UNCHANGED scoreVars
    /\ UNCHANGED keyVars
    /\ UNCHANGED gameVars

\* word_list.get_most_common_letters(count)
MostCommonLettersCall ==
    /\ wpc \in {"built", "picked"}
    /\ \E count \in CountArgs :
           answer' = Returns("get_most_common_letters", count,
                             get_most_common_letters(words, count))
    /\ UNCHANGED <<raw, words, word_set, printed, chosen, wpc>>
    /\ UNCHANGED scoreVars
    /\ UNCHANGED keyVars
    /\ UNCHANGED gameVars

\* word_list.get_word_count(), len(word_list)
WordCountCall ==
    /\ wpc \in {"built", "picked"}
    /\ answer' = Returns("get_word_count", <<>>, get_word_count)
    /\ UNCHANGED <<raw, words, word_set, printed, chosen, wpc>>
    /\ UNCHANGED scoreVars
    /\ UNCHANGED keyVars
    /\ UNCHANGED gameVars

\* word_list.get_random_word(), its outcome kept as the last answer
RandomWordCall ==
    /\ wpc \in {"built", "picked"}
    /\ \E picked \in RandomWord(words) :
           answer' = Returns("get_random_word", <<>>, picked)
    /\ UNCHANGED <<raw, words, word_set, printed, chosen, wpc>>
    /\ UNCHANGED scoreVars
    /\ UNCHANGED keyVars
    /\ UNCHANGED gameVars

\* a sampling that shuffles self.words itself and returns its first items
SampleWordsInPlaceCall ==
    /\ wpc \in {"built", "picked"}
    /\ \E count \in CountArgs :
           \E shuffled \in Samples(words, Len(words)) :
               /\ words' = shuffled
               /\ answer' = [op |-> "get_sample_words", arg |-> count,
                             exc |-> "none",
                             value |-> SubSeq(shuffled, 1,
                                              Min(Max(count, 0), Len(words)))]
    /\ UNCHANGED <<raw, word_set, printed, chosen, wpc>>
    /\ UNCHANGED scoreVars
    /\ UNCHANGED keyVars
    /\ UNCHANGED gameVars

\* word_list.get_sample_words(count)
SampleWordsCall ==
    /\ wpc \in {"built", "picked"}
    /\ \E count \in CountArgs :
           \E sample \in get_sample_words(words, count) :
               answer' = [op |-> "get_sample_words", arg |-> count,
                          exc |-> sample.exc, value |-> sample.value]
    /\ UNCHANGED <<raw, words, word_set, printed, chosen, wpc>>
    /\ UNCHANGED scoreVars
    /\ UNCHANGED keyVars
    /\ UNCHANGED gameVars

QueryNext ==
    \/ Construct
    \/ IsValidWordCall
    \/ ValidateGuessCall
    \/ StartingWithCall
    \/ ContainingLetterCall
    \/ WithPatternCall
    \/ WordFrequencyCall
    \/ MostCommonLettersCall
    \/ WordCountCall
    \/ RandomWordCall
    \/ SampleWordsCall

SpecQuery == QueryInit /\ [][QueryNext]_vars

(***************************************************************************)
(* wordle/utils.py: update_used_letters                                    *)
(***************************************************************************)
Statuses == {"correct", "wrong_position", "not_in_word"}

\* `used_letters[letter] = status`
Stored(used, letter, status) ==
    [key \in DOMAIN used \cup {letter} |->
         IF key = letter THEN status ELSE used[key]]

\* the body of the loop with the status stored whatever stood there
MergeOneOverwriting(used, letter, status) == Stored(used, letter, status)

\* the body of the loop with the status of a letter stored only when the
\* letter has none yet
MergeOneKeepingFirst(used, letter, status) ==
    IF letter \notin DOMAIN used THEN Stored(used, letter, status) ELSE used

\* the body of the loop of update_used_letters for one (letter, status)
MergeOne(used, letter, status) ==
    IF letter \notin DOMAIN used THEN Stored(used, letter, status)
    ELSE LET current_status == used[letter]
         IN IF status = "correct"
               \/ (status = "wrong_position" /\ current_status = "not_in_word")
            THEN Stored(used, letter, status)
            ELSE used

\* `for letter, status in zip(guess.upper(), result):` from the i-th pair on
RECURSIVE MergeFrom(_, _, _, _)
MergeFrom(used, letters, result, i) ==
    IF i > Min(Len(letters), Len(result)) THEN used
    ELSE MergeFrom(MergeOne(used, letters[i], result[i]), letters, result,
                   i + 1)

\* update_used_letters(guess = g, result, used_letters = used)
update_used_letters(g, result, used) == MergeFrom(used, Upper(g), result, 1)

(***************************************************************************)
(* A keyboard state that starts empty and takes any guesses with any       *)
(* results, one after another.                                             *)
(***************************************************************************)
KeyGuesses == [1..KeyLen -> {"a", "b"}]
KeyResults == [1..KeyLen -> Statuses]

KeyboardInit ==
    /\ KeyIdle
    /\ GameIdle
    /\ ScoreIdle
    /\ ListIdle

\* the statuses the key got in the merge of g and result
Given(key, g, result) ==
    {result[i] : i \in {h \in 1..KeyLen : Upper(g)[h] = key}}

\* self.used_letters = update_used_letters(guess, result, self.used_letters)
Merge ==
    /\ \E g \in KeyGuesses, result \in KeyResults :
           /\ used_letters' = update_used_letters(g, result, used_letters)
           /\ received' = [key \in Keys |->
                               received[key] \cup Given(key, g, result)]
           /\ latest' = [key \in Keys |-> Given(key, g, result)]
    /\ before' = used_letters
    /\ UNCHANGED scoreVars
    /\ UNCHANGED listVars
    /\ UNCHANGED gameVars

KeyboardNext == Merge

SpecKeyboard == KeyboardInit /\ [][KeyboardNext]_vars

(***************************************************************************)
(* wordle/game.py: WordleGame                                              *)
(***************************************************************************)
\* `if guess in ['quit', 'exit', 'q']`
QuitWords == {<<"q", "u", "i", "t">>, <<"e", "x", "i", "t">>, <<"q">>}

\* `if play_again not in ['y', 'yes', 'yeah', 'sure']`
YesWords == {<<"y">>, <<"y", "e", "s">>, <<"y", "e", "a", "h">>,
             <<"s", "u", "r", "e">>}

\* get_user_input(prompt) when the player types line
get_user_input(line) == Strip(line)

\* json.dump writes every key of an object as a string
JsonKey(key) == StrKey(key[2])

\* json.dump(self.stats, f): the text of the file, held as what json.load
\* makes of it
JsonDump(st) ==
    LET distribution == st.guess_distribution
    IN [st EXCEPT !.guess_distribution =
            [key \in {JsonKey(k) : k \in DOMAIN distribution} |->
                 distribution[CHOOSE k \in DOMAIN distribution :
                                  JsonKey(k) = key]]]

\* json.load(f) on a file json.dump wrote
JsonLoad(content) == content

\* load_statistics() when data/wordle_stats.json is file
load_statistics(file) ==
    IF file.exists THEN JsonLoad(file.content) ELSE DefaultStatistics

\* the file after save_statistics() with self.stats = st
save_statistics(st) == [exists |-> TRUE, content |-> JsonDump(st)]

\* update_statistics(won, attempts) on self.stats = st, up to the call of
\* save_statistics: stats is self.stats as the call leaves it, exc the
\* exception that left it
update_statistics(st, won, n) ==
    LET played == [st EXCEPT !.games_played = @ + 1]
    IN IF won
       THEN LET streak == [played EXCEPT !.games_won = @ + 1,
                                         !.current_streak = @ + 1]
                longest == [streak EXCEPT
                                !.max_streak = Max(@, streak.current_streak)]
            IN IF IntKey(n) \in DOMAIN longest.guess_distribution
               THEN [exc |-> "none",
                     stats |-> [longest EXCEPT
                                    !.guess_distribution[IntKey(n)] = @ + 1]]
               ELSE [exc |-> "KeyError", stats |-> longest]
       ELSE [exc |-> "none", stats |-> [played EXCEPT !.current_streak = 0]]

\* start_new_game() whatever get_random_word returned
start_new_game_unchecked(picked) == "started"

\* start_new_game() when get_random_word returned picked: the test of
\* `if not self.target_word`
start_new_game(picked) ==
    IF picked.none \/ picked.value = <<>> THEN "ValueError" ELSE "started"

\* get_guess() without `.lower()`
get_guess_as_typed(ws_set, line) ==
    LET g == get_user_input(line)
    IN IF g \in QuitWords THEN [kind |-> "quit", value |-> <<>>]
       ELSE IF validate_guess(ws_set, g)[1] THEN [kind |-> "guess", value |-> g]
       ELSE [kind |-> "rejected", value |-> g]

\* one turn of the loop of get_guess() when the player types line: kind
\* "quit" is `return None`, "guess" is `return guess` and "rejected" is the
\* error message and another turn
get_guess(ws_set, line) ==
    LET g == Lower(get_user_input(line))
    IN IF g \in QuitWords THEN [kind |-> "quit", value |-> <<>>]
       ELSE IF validate_guess(ws_set, g)[1] THEN [kind |-> "guess", value |-> g]
       ELSE [kind |-> "rejected", value |-> g]

\* process_guess(guess = g) without `self.attempts += 1`
process_guess_uncounted(g, t, gs, rs, used, n) ==
    LET scored == calculate_guess_result(g, t)
    IN IF scored.exc # "none"
       THEN [exc |-> scored.exc, won |-> FALSE, guesses |-> Append(gs, g),
             results |-> rs, used_letters |-> used, attempts |-> n]
       ELSE [exc |-> "none", won |-> (g = t), guesses |-> Append(gs, g),
             results |-> Append(rs, scored.value),
             used_letters |-> update_used_letters(g, scored.value, used),
             attempts |-> n]

\* process_guess(guess = g) on target_word = t, guesses = gs, results = rs,
\* used_letters = used and attempts = n: the fields as the call leaves
\* them, won what it returns (and what game_won becomes) and exc the
\* exception that left it
process_guess(g, t, gs, rs, used, n) ==
    LET scored == calculate_guess_result(g, t)
    IN IF scored.exc # "none"
       THEN [exc |-> scored.exc, won |-> FALSE, guesses |-> Append(gs, g),
             results |-> rs, used_letters |-> used, attempts |-> n + 1]
       ELSE [exc |-> "none", won |-> (g = t), guesses |-> Append(gs, g),
             results |-> Append(rs, scored.value),
             used_letters |-> update_used_letters(g, scored.value, used),
             attempts |-> n + 1]

\* play_round() with no test for the last attempt
play_round_no_loss(won, n) ==
    IF won THEN "win" ELSE "continue"

\* play_round() after process_guess returned won and left attempts = n:
\* "win" is the branch of `if won`, "loss" the branch of
\* `if self.attempts >= self.max_attempts` and "continue" is `return True`
play_round(won, n) ==
    IF won THEN "win"
    ELSE IF n >= max_attempts THEN "loss"
    ELSE "continue"

(***************************************************************************)
(* Sessions of the game on one statistics file: each builds a WordleGame   *)
(* on a raw list and plays games on lines typed at the prompts.            *)
(***************************************************************************)
GameRawLists ==
    {<<(<<"a", "b", "b">>)>>, <<W1, W2, W4>>,
     <<(<<" ", "A", "B", "B", "A", "A">>), W4>>}

GuessLines ==
    {W1, W2, <<"C", "A", "B", "C", "A", " ">>, <<"a", "b", "b">>,
     <<" ", "Q">>, <<"e", "x", "i", "t">>}

AgainLines == {<<"Y", "e", "s", " ">>, <<"n">>}

GameInit ==
    /\ target_word = NoTarget
    /\ guesses = <<>>
    /\ results = <<>>
    /\ attempts = 0
    /\ game_won = FALSE
    /\ stats = DefaultStatistics
    /\ stats_file = NoFile
    /\ typed = <<>>
    /\ gpc = "new"
    /\ failure = "none"
    /\ ending = "none"
    /\ calls = <<>>
    /\ games = 0
    /\ raw = <<>>
    /\ words = <<>>
    /\ word_set = {}
    /\ printed = <<>>
    /\ chosen = NotPicked
    /\ answer = NotAsked
    /\ wpc = "idle"
    /\ KeyIdle
    /\ ScoreIdle

\* game = WordleGame(words); game.play() up to start_new_game()
NewWordleGame ==
    /\ gpc \in {"new", "done"}
    /\ games < MaxGames
    /\ raw' \in GameRawLists
    /\ \E built \in {WordListInit(raw')} :
           /\ words' = built.words
           /\ word_set' = built.word_set
           /\ printed' = built.printed
    /\ target_word' = NoTarget
    /\ guesses' = <<>>
    /\ results' = <<>>
    /\ used_letters' = EmptyDict
    /\ attempts' = 0
    /\ game_won' = FALSE
    /\ stats' = load_statistics(stats_file)
    /\ typed' = <<>>
    /\ gpc' = "play"
    /\ failure' = "none"
    /\ ending' = "none"
    /\ calls' = <<>>
    /\ UNCHANGED <<stats_file, games>>
    /\ UNCHANGED <<chosen, answer, wpc>>
    /\ UNCHANGED <<received, latest, before>>
    /\ UNCHANGED scoreVars

\* self.start_new_game() in play(), and the handler of play() when it raises
StartNewGame ==
    /\ gpc = "play"
    /\ games < MaxGames
    /\ \E picked \in RandomWord(words) :
           /\ target_word' = picked
           /\ IF start_new_game(picked) = "ValueError"
              THEN /\ failure' = "ValueError"
                   /\ gpc' = "done"
                   /\ UNCHANGED <<guesses, results, used_letters, attempts,
                                  game_won, ending, calls, games>>
              ELSE /\ guesses' = <<>>
                   /\ results' = <<>>
                   /\ used_letters' = EmptyDict
                   /\ attempts' = 0
                   /\ game_won' = FALSE
                   /\ ending' = "none"
                   /\ calls' = <<>>
                   /\ games' = games + 1
                   /\ gpc' = IF 0 < max_attempts THEN "guess" ELSE "again"
                   /\ UNCHANGED failure
    /\ UNCHANGED <<stats, stats_file, typed>>
    /\ UNCHANGED listVars
    /\ UNCHANGED <<received, latest, before>>
    /\ UNCHANGED scoreVars

\* get_guess(): a line that is no quit word and that validate_guess rejects
RejectedGuess ==
    /\ gpc = "guess"
    /\ \E line \in GuessLines :
           /\ get_guess(word_set, line).kind = "rejected"
           /\ typed' = line
    /\ UNCHANGED <<target_word, guesses, results, attempts, game_won, stats,
                   stats_file, gpc, failure, ending, calls, games>>
    /\ UNCHANGED listVars
    /\ UNCHANGED keyVars
    /\ UNCHANGED scoreVars

\* play_round() when get_guess() returns None, and the `break` in play()
QuitRound ==
    /\ gpc = "guess"
    /\ \E line \in GuessLines :
           /\ get_guess(word_set, line).kind = "quit"
           /\ typed' = line
    /\ ending' = "quit"
    /\ gpc' = "again"
    /\ UNCHANGED <<target_word, guesses, results, attempts, game_won, stats,
                   stats_file, failure, calls, games>>
    /\ UNCHANGED listVars
    /\ UNCHANGED keyVars
    /\ UNCHANGED scoreVars

\* play_round() when get_guess() returns a guess, and what play() does with
\* what play_round() returns or raises
PlayRound ==
    /\ gpc = "guess"
    /\ \E line \in GuessLines :
       \E got \in {get_guess(word_set, line)} :
       \E done \in {process_guess(got.value, target_word.value, guesses,
                                  results, used_letters, attempts)} :
       \E round \in {IF done.exc # "none" THEN "raised"
                     ELSE play_round(done.won, done.attempts)} :
       \E updated \in
               {IF round = "win"
                THEN update_statistics(stats, TRUE, done.attempts)
                ELSE IF round = "loss"
                THEN update_statistics(stats, FALSE, done.attempts)
                ELSE [exc |-> "none", stats |-> stats]} :
              /\ got.kind = "guess"
              /\ typed' = line
              /\ guesses' = done.guesses
              /\ results' = done.results
              /\ used_letters' = done.used_letters
              /\ attempts' = done.attempts
              /\ game_won' = done.won
              /\ stats' = updated.stats
              /\ stats_file' = IF round \in {"win", "loss"}
                                  /\ updated.exc = "none"
                               THEN save_statistics(updated.stats)
                               ELSE stats_file
              /\ calls' = IF round = "win"
                          THEN Append(calls, <<TRUE, done.attempts>>)
                          ELSE IF round = "loss"
                          THEN Append(calls, <<FALSE, done.attempts>>)
                          ELSE calls
              /\ ending' = IF round \in {"win", "loss"} THEN round ELSE ending
              /\ failure' = IF done.exc # "none" THEN done.exc
                            ELSE updated.exc
              /\ gpc' = IF done.exc # "none" \/ updated.exc # "none"
                        THEN "done"
                        ELSE IF round = "continue"
                                /\ done.attempts < max_attempts
                                /\ ~done.won
                        THEN "guess"
                        ELSE "again"
    /\ UNCHANGED <<target_word, games>>
    /\ UNCHANGED listVars
    /\ UNCHANGED <<received, latest, before>>
    /\ UNCHANGED scoreVars

\* "Play again?" answered with one of the words that go on
PlayAgain ==
    /\ gpc = "again"
    /\ games < MaxGames
    /\ \E line \in AgainLines :
           /\ Lower(get_user_input(line)) \in YesWords
           /\ typed' = line
    /\ gpc' = "play"
    /\ UNCHANGED <<target_word, guesses, results, attempts, game_won, stats,
                   stats_file, failure, ending, calls, games>>
    /\ UNCHANGED listVars
    /\ UNCHANGED keyVars
    /\ UNCHANGED scoreVars

\* "Play again?" answered with anything else: the `break` that ends play()
StopPlaying ==
    /\ gpc = "again"
    /\ \E line \in AgainLines :
           /\ Lower(get_user_input(line)) \notin YesWords
           /\ typed' = line
    /\ gpc' = "done"
    /\ UNCHANGED <<target_word, guesses, results, attempts, game_won, stats,
                   stats_file, failure, ending, calls, games>>
    /\ UNCHANGED listVars
    /\ UNCHANGED keyVars
    /\ UNCHANGED scoreVars

GameNext ==
    \/ NewWordleGame
    \/ StartNewGame
    \/ RejectedGuess
    \/ QuitRound
    \/ PlayRound
    \/ PlayAgain
    \/ StopPlaying

SpecGame == GameInit /\ [][GameNext]_vars

\* the player types a quit word or a guess the game accepts at every prompt
\* for a guess, sooner or later
SpecGameFair == SpecGame /\ WF_vars(QuitRound \/ PlayRound)

(***************************************************************************)
(* Properties of calculate_guess_result, checked under SpecScore.          *)
(***************************************************************************)
Scored == spc = "returned"

\* both arguments meet the scorer's precondition
WellFormed == Len(guess) = ScoreLen /\ Len(target) = ScoreLen

\* the call returned a list of ScoreLen statuses
Returned == Scored /\ outcome.exc = "none" /\ Len(outcome.value) = ScoreLen

Credited == {"correct", "wrong_position"}

\* C1: scoring a 5-letter word against itself returns 'correct' at every
\* position.
C1_SelfIsAllCorrect ==
    (Scored /\ WellFormed /\ guess = target)
        => /\ Returned
           /\ \A k \in 1..ScoreLen : outcome.value[k] = "correct"

\* a word with a repeated letter scored against itself
C1_Witness ==
    /\ Returned
    /\ guess = <<"a", "b", "a", "c", "b">>
    /\ target = guess
    /\ \A k \in 1..ScoreLen : outcome.value[k] = "correct"

\* C2: a 5-letter guess that has no letter in common with the 5-letter
\* target is 'not_in_word' at every position.
C2_DisjointIsAllAbsent ==
    (Scored /\ WellFormed /\ Range(guess) \cap Range(target) = {})
        => /\ Returned
           /\ \A k \in 1..ScoreLen : outcome.value[k] = "not_in_word"

\* a guess of two letters against a target made of a third one
C2_Witness ==
    /\ Returned
    /\ guess = <<"a", "b", "b", "a", "a">>
    /\ target = <<"c", "c", "c", "c", "c">>
    /\ \A k \in 1..ScoreLen : outcome.value[k] = "not_in_word"

C4_CorrectIffSamePosition ==
    (Scored /\ WellFormed)
        => /\ Returned
           /\ \A i \in 1..ScoreLen :
                  (outcome.value[i] = "correct") <=> (guess[i] = target[i])

\* some positions agree and some do not
C4_Witness ==
    /\ Returned
    /\ WellFormed
    /\ \E i \in 1..ScoreLen : guess[i] = target[i] /\ outcome.value[i] = "correct"
    /\ \E i \in 1..ScoreLen : guess[i] # target[i] /\ outcome.value[i] = "wrong_position"
    /\ \E i \in 1..ScoreLen : guess[i] # target[i] /\ outcome.value[i] = "not_in_word"

\* occurrences of guess[i] in the target that no 'correct' position took
Uncredited(i) ==
    Count(guess[i], target)
        - Cardinality({k \in 1..ScoreLen :
                           guess[k] = guess[i] /\ outcome.value[k] = "correct"})

\* positions left of i that are not 'correct' and hold the letter of i
EarlierCopies(i) ==
    Cardinality({j \in 1..(i - 1) :
                     guess[j] = guess[i] /\ outcome.value[j] # "correct"})

C6_FailsFastOnAnyLength ==
    (Scored /\ ~WellFormed) => outcome.exc # "none"

\* C6 as amended: the call raises (IndexError) exactly when the guess or the
\* target has fewer than 5 characters; otherwise it returns a list of
\* exactly 5 statuses, also when an argument is longer than 5.
C6_RaisesIffTooShort ==
    Scored
        => /\ (outcome.exc = "IndexError")
                  <=> (Len(guess) < ScoreLen \/ Len(target) < ScoreLen)
           /\ outcome.exc \in {"none", "IndexError"}
           /\ outcome.exc = "none" => Len(outcome.value) = ScoreLen
           /\ outcome.exc # "none" => outcome.value = <<>>

\* a guess of 6 characters is scored without an exception
C6_Witness ==
    /\ Scored
    /\ Len(guess) = ScoreLen + 1
    /\ Len(target) = ScoreLen
    /\ outcome.exc = "none"
    /\ Len(outcome.value) = ScoreLen

(***************************************************************************)
(* Properties of WordList, checked under SpecList.                         *)
(***************************************************************************)
Built == wpc \in {"built", "picked"}

\* the trimmed, lowercased form of a raw entry
CanonicalForm(s) == Strip(Lower(s))

\* the trimmed, lowercased form has length 5 and holds letters only
ValidEntry(s) ==
    /\ Len(CanonicalForm(s)) = WordLen
    /\ IsAlpha(CanonicalForm(s))

ValidIndices == {i \in 1..Len(raw) : ValidEntry(raw[i])}

DistinctValidWords == {CanonicalForm(raw[i]) : i \in ValidIndices}

NoDuplicates(ws) == \A i, j \in 1..Len(ws) : i # j => ws[i] # ws[j]

\* C7 as claimed: the retained sequence holds no duplicates, so the word
\* count is the number of distinct valid canonical words and the size of the
\* membership set.
C7_NoDuplicatesRetained ==
    Built
        => /\ NoDuplicates(words)
           /\ get_word_count = Cardinality(DistinctValidWords)
           /\ get_word_count = Cardinality(word_set)

\* C7 as amended: only the membership set is free of duplicates.  It holds
\* exactly the distinct valid canonical words, the retained sequence holds
\* one element per valid raw entry, repeats included, and the word count
\* equals the size of the set if and only if no two valid raw entries have
\* the same canonical form.
C7_OnlyTheSetIsDeduplicated ==
    Built
        => /\ word_set = Range(words)
           /\ word_set = DistinctValidWords
           /\ get_word_count = Cardinality(ValidIndices)
           /\ get_word_count >= Cardinality(word_set)
           /\ (get_word_count = Cardinality(word_set))
                  <=> (\A i, j \in ValidIndices :
                           i # j => CanonicalForm(raw[i]) # CanonicalForm(raw[j]))

\* one word given three times, in three spellings: count 3, set of size 1
C7_Witness ==
    /\ Built
    /\ raw = <<W1, <<"A", "B", "B", "A", "A">>, <<" ">> \o W1 \o <<" ">>>>
    /\ get_word_count = 3
    /\ Cardinality(word_set) = 1

\* the index in raw of the j-th valid entry
NthValid(j) ==
    CHOOSE i \in ValidIndices : Cardinality({k \in ValidIndices : k <= i}) = j

\* the first index of raw whose canonical form is w
FirstSeen(w) ==
    CHOOSE i \in 1..Len(raw) :
        /\ CanonicalForm(raw[i]) = w
        /\ \A k \in 1..(i - 1) : CanonicalForm(raw[k]) # w

\* the first index of words holding w
FirstKept(w) ==
    CHOOSE i \in 1..Len(words) :
        words[i] = w /\ \A k \in 1..(i - 1) : words[k] # w

\* C8: construction yields a word list from every raw list; it retains
\* exactly the entries whose trimmed, lowercased form has 5 characters, all
\* letters; each is stored in that form, the retained words stand in the
\* order of the input, and so first appear in the order in which they first
\* occur in the input.
C8_RetainsExactlyValidEntries ==
    /\ wpc = "new" => Len(WordListInit(raw).words) <= Len(raw)
    /\ Built
        => /\ Len(words) = Cardinality(ValidIndices)
           /\ \A j \in 1..Len(words) :
                  /\ words[j] = CanonicalForm(raw[NthValid(j)])
                  /\ Len(words[j]) = WordLen
                  /\ \A k \in 1..Len(words[j]) : words[j][k] \in LowerCase
           /\ \A i \in 1..Len(raw) :
                  ValidEntry(raw[i]) <=> CanonicalForm(raw[i]) \in Range(words)
           /\ \A v, w \in Range(words) :
                  (FirstKept(v) < FirstKept(w)) <=> (FirstSeen(v) < FirstSeen(w))

\* a padded word, a too short entry and a capitalised word: two are kept, in
\* canonical form and in input order
C8_Witness ==
    /\ Built
    /\ raw = << <<" ">> \o W1 \o <<" ">>, <<"a", "b", "b">>,
                <<"B", "a", "b", "a", "b">> >>
    /\ words = <<W1, W2>>

\* C9: whenever construction drops an entry, the drop count it reports is
\* the number of raw entries minus the number of retained words.
C9_DropCountReported ==
    (Built /\ Len(words) < Len(raw))
        => printed = <<Len(raw) - Len(words)>>

\* C10: get_random_word never raises; it returns None if and only if the
\* list is empty, otherwise one of the retained words, and each retained
\* word is a possible result.
C10_RandomWordOrNone ==
    /\ wpc = "picked"
        => /\ chosen.exc = "none"
           /\ chosen.none <=> (words = <<>>)
           /\ ~chosen.none => chosen.value \in Range(words)
    /\ Built
        => /\ ENABLED GetRandomWord
           /\ \A k \in 1..Len(words) :
                  ENABLED (GetRandomWord /\ chosen' = StrReturned(words[k]))

\* the second of two different retained words was picked
C10_Witness ==
    /\ wpc = "picked"
    /\ Len(words) >= 2
    /\ words[1] # words[2]
    /\ chosen = StrReturned(words[2])

(***************************************************************************)
(* Properties of the queries of WordList, checked under SpecQuery.         *)
(***************************************************************************)
Asked(op) == Built /\ answer.op = op

\* C11: is_valid_word(w) returns, and returns True exactly when the trimmed,
\* lowercased form of w has length 5, holds letters only and is one of the
\* retained words; so the empty string gives False.
C11_ValidIffCanonicalMember ==
    Asked("is_valid_word") =>
        /\ answer.exc = "none"
        /\ answer.value = (/\ ValidEntry(answer.arg)
                           /\ \E i \in 1..Len(words) :
                                  words[i] = CanonicalForm(answer.arg))
        /\ answer.arg = <<>> => answer.value = FALSE

\* a word in another spelling than the stored one is found
C11_Witness ==
    /\ Asked("is_valid_word")
    /\ answer.value = TRUE
    /\ answer.arg # CanonicalForm(answer.arg)

\* the guess is one of the retained words, whatever the case it is typed in
InDictionary(g) == \E i \in 1..Len(words) : words[i] = Lower(g)

AllLetters(g) == \A k \in 1..Len(g) : g[k] \in LowerCase \cup UpperCase

\* the checks of a guess in their order, TRUE where the guess fails one
FailedChecks(g) ==
    <<g = <<>>, Len(g) # 5, ~AllLetters(g), ~InDictionary(g)>>

CheckReasons ==
    <<"Please enter a word.", "Word must be exactly 5 letters long.",
      "Word must contain only letters.", "Word not found in the word list.">>

\* C12: validate_guess returns a pair (boolean, reason): (True, '') exactly
\* when the guess has 5 characters, all letters, and is in the dictionary;
\* otherwise False with the non-empty reason of the first check that fails,
\* in the order empty, wrong length, not letters only, not in the word list.
C12_FirstFailingCheckReported ==
    Asked("validate_guess") =>
        LET g == answer.arg
            failed == {n \in 1..4 : FailedChecks(g)[n]}
        IN /\ answer.exc = "none"
           /\ Len(answer.value) = 2
           /\ answer.value[1] \in BOOLEAN
           /\ answer.value = <<TRUE, "">>
                  <=> (Len(g) = 5 /\ AllLetters(g) /\ InDictionary(g))
           /\ answer.value # <<TRUE, "">> =>
                  /\ failed # {}
                  /\ answer.value[1] = FALSE
                  /\ answer.value[2] # ""
                  /\ answer.value[2] =
                         CheckReasons[CHOOSE n \in failed :
                                          \A m \in failed : n <= m]

\* a guess that fails two checks gets the reason of the earlier one
C12_Witness ==
    /\ Asked("validate_guess")
    /\ Len(answer.arg) # 5
    /\ ~AllLetters(answer.arg)
    /\ answer.value = <<FALSE, CheckReasons[2]>>

\* the j-th smallest member of a set of indices
Nth(S, j) == CHOOSE i \in S : Cardinality({h \in S : h < i}) = j - 1

\* the entries of ws at the indices S, one per index, in the order of ws
Pick(ws, S) == [j \in 1..Cardinality(S) |-> ws[Nth(S, j)]]

\* the first Len(p) characters of w are those of p
HasPrefix(w, p) == Len(p) <= Len(w) /\ \A k \in 1..Len(p) : w[k] = p[k]

\* C13 as claimed: get_words_starting_with returns the words that start with
\* the trimmed, lowercased prefix, one per dictionary entry, in dictionary
\* order.
C13_TrimmedPrefixMatched ==
    Asked("get_words_starting_with") =>
        answer.value =
            Pick(words, {i \in 1..Len(words) :
                             HasPrefix(words[i], CanonicalForm(answer.arg))})

\* C13, corrected: get_words_starting_with lowercases the prefix and does not
\* trim it; it returns the words that start with the lowercased prefix, one
\* per dictionary entry, in dictionary order, so a prefix written with
\* whitespace around it finds nothing.
C13_LowercasedPrefixMatched ==
    Asked("get_words_starting_with") =>
        /\ answer.exc = "none"
        /\ answer.value =
               Pick(words, {i \in 1..Len(words) :
                                HasPrefix(words[i], Lower(answer.arg))})
        /\ answer.arg # Strip(answer.arg) => answer.value = <<>>

\* a prefix in upper case finds a word that the dictionary holds twice, twice
C13_Witness ==
    /\ Asked("get_words_starting_with")
    /\ answer.arg # Lower(answer.arg)
    /\ Len(answer.value) = 2
    /\ answer.value[1] = answer.value[2]
    /\ Len(words) = 3

\* C14: for a single letter in either case, get_words_containing_letter
\* returns the words that hold the lowercased letter at one position or more,
\* one per dictionary entry however often the letter occurs in it, in
\* dictionary order; a letter of no word gives the empty sequence.
C14_WordsHoldingTheLetter ==
    (Asked("get_words_containing_letter")
         /\ Len(answer.arg) = 1 /\ AllLetters(answer.arg)) =>
        LET c == LowerCh(answer.arg[1])
            holding == {i \in 1..Len(words) :
                            \E k \in 1..Len(words[i]) : words[i][k] = c}
        IN /\ answer.exc = "none"
           /\ answer.value = Pick(words, holding)
           /\ holding = {} => answer.value = <<>>

\* an upper-case letter finds a word that holds it twice, once, and leaves
\* another word out
C14_Witness ==
    /\ Asked("get_words_containing_letter")
    /\ answer.arg = <<"C">>
    /\ answer.value = <<W4>>
    /\ Len(words) > 1

C16_PrefixIsPaddedPattern ==
    /\ (Asked("get_words_starting_with") /\ answer.arg \in AlphabeticPrefixes)
           => answer.value = get_words_with_pattern(words, Padded(answer.arg))
    /\ Asked("get_words_with_pattern") =>
           \A p \in AlphabeticPrefixes :
               answer.arg = Padded(p)
                   => answer.value = get_words_starting_with(words, p)

\* a prefix with an upper-case letter finds part of the dictionary, and the
\* padded pattern finds the same
C16_Witness ==
    /\ Asked("get_words_starting_with")
    /\ answer.arg = <<"A", "b">>
    /\ Len(answer.value) > 0
    /\ Len(answer.value) < Len(words)
    /\ answer.value =
           get_words_with_pattern(words, <<"A", "b", "?", "?", "?">>)

\* how often the letter c stands in the words of the dictionary, every
\* position of every entry counted
Occurrences(c) ==
    Cardinality({pos \in (1..Len(words)) \X (1..WordLen) :
                     words[pos[1]][pos[2]] = c})

RECURSIVE SumOfCounts(_)
SumOfCounts(pairs) ==
    IF pairs = <<>> THEN 0
    ELSE pairs[1][2] + SumOfCounts(Tail(pairs))

\* the pairs of a mapping have distinct keys
IsMapping(pairs) ==
    \A j, k \in 1..Len(pairs) : pairs[j][1] = pairs[k][1] => j = k

\* C17: get_word_frequency maps each letter to the number of its occurrences
\* over all positions of all dictionary words; a letter that occurs nowhere
\* has no entry; the counts sum to 5 * get_word_count().
C17_FrequencyCountsOccurrences ==
    Asked("get_word_frequency") =>
        LET frequency == answer.value
        IN /\ answer.exc = "none"
           /\ IsMapping(frequency)
           /\ \A k \in 1..Len(frequency) :
                  /\ frequency[k][1] \in LowerCase
                  /\ frequency[k][2] = Occurrences(frequency[k][1])
                  /\ frequency[k][2] > 0
           /\ \A c \in LowerCase :
                  Occurrences(c) > 0
                      => \E k \in 1..Len(frequency) : frequency[k][1] = c
           /\ SumOfCounts(frequency) = 5 * get_word_count

\* a letter is counted more often than there are words, and a letter of no
\* word has no entry
C17_Witness ==
    /\ Asked("get_word_frequency")
    /\ Len(words) >= 2
    /\ \E k \in 1..Len(answer.value) : answer.value[k][2] > Len(words)
    /\ \A k \in 1..Len(answer.value) : answer.value[k][1] # "c"

\* the letters that occur in the dictionary
LettersInUse == {c \in LowerCase : Occurrences(c) > 0}

\* the entries are (letter, count) pairs of get_word_frequency(), sorted by
\* count, descending, and no letter left out has a greater count than a
\* letter returned
MostCommonOfFrequency(entries) ==
    /\ IsMapping(entries)
    /\ Range(entries) \subseteq Range(get_word_frequency(words))
    /\ \A j \in 1..Len(entries) :
           entries[j][2] = Occurrences(entries[j][1])
    /\ \A j \in 1..(Len(entries) - 1) : entries[j][2] >= entries[j + 1][2]
    /\ \A c \in LettersInUse :
           (\A j \in 1..Len(entries) : entries[j][1] # c)
               => \A j \in 1..Len(entries) : Occurrences(c) <= entries[j][2]

\* C18 as claimed: for 0 <= k <= 26, get_most_common_letters(k) returns
\* exactly k entries of get_word_frequency(), sorted by count, descending,
\* none of them less frequent than a letter left out.
C18_ExactlyKEntries ==
    (Asked("get_most_common_letters")
         /\ answer.arg >= 0 /\ answer.arg <= 26) =>
        /\ Len(answer.value) = answer.arg
        /\ MostCommonOfFrequency(answer.value)

\* C18, corrected: for 0 <= k <= 26, get_most_common_letters(k) returns k
\* entries when the dictionary words hold k distinct letters or more, and
\* otherwise one entry for every letter in use; the entries are pairs of
\* get_word_frequency(), sorted by count, descending, none of them less
\* frequent than a letter left out.
C18_UpToKEntries ==
    (Asked("get_most_common_letters")
         /\ answer.arg >= 0 /\ answer.arg <= 26) =>
        /\ answer.exc = "none"
        /\ Len(answer.value) = Min(answer.arg, Cardinality(LettersInUse))
        /\ MostCommonOfFrequency(answer.value)

\* two of three letters are returned, and not the two met first
C18_Witness ==
    /\ Asked("get_most_common_letters")
    /\ answer.arg = 2
    /\ Len(answer.value) = 2
    /\ Cardinality(LettersInUse) = 3
    /\ answer.value # SubSeq(get_word_frequency(words), 1, 2)

\* the queries whose result is not drawn at random
Deterministic ==
    {"is_valid_word", "get_word_count", "get_words_starting_with",
     "get_words_containing_letter", "get_words_with_pattern",
     "get_word_frequency", "get_most_common_letters"}

\* what a query that is not random returns on the word list ws, ws_set
ResultOn(ws, ws_set, op, arg) ==
    CASE op = "is_valid_word" -> is_valid_word(ws_set, arg)
      [] op = "get_word_count" -> Len(ws)
      [] op = "get_words_starting_with" -> get_words_starting_with(ws, arg)
      [] op = "get_words_containing_letter" ->
             get_words_containing_letter(ws, arg)
      [] op = "get_words_with_pattern" -> get_words_with_pattern(ws, arg)
      [] op = "get_word_frequency" -> get_word_frequency(ws)
      [] op = "get_most_common_letters" -> get_most_common_letters(ws, arg)

\* C20: after construction no sequence of queries changes the retained
\* word sequence or the membership set: both are what the construction left,
\* and a query that is not random returns what it returns on the word list
\* as constructed, whatever was asked before it.
C20_QueriesLeaveTheDictionary ==
    Built =>
        /\ words = WordListInit(raw).words
        /\ word_set = WordListInit(raw).word_set
        /\ answer.op \in Deterministic =>
               /\ answer.exc = "none"
               /\ answer.value = ResultOn(WordListInit(raw).words,
                                          WordListInit(raw).word_set,
                                          answer.op, answer.arg)

\* a sample in another order than the dictionary's was drawn and the
\* dictionary is as it was
C20_Witness ==
    /\ Built
    /\ answer.op = "get_sample_words"
    /\ answer.arg = 2
    /\ Len(words) = 3
    /\ answer.value = <<words[3], words[1]>>
    /\ words[3] # words[1]
    /\ words = WordListInit(raw).words

\* where the letter c is first met when the dictionary is scanned word by
\* word and, in a word, letter by letter
FirstAppearance(c) ==
    LET met == {(pos[1] - 1) * WordLen + pos[2] :
                    pos \in {q \in (1..Len(words)) \X (1..WordLen) :
                                 words[q[1]][q[2]] = c}}
    IN CHOOSE n \in met : \A m \in met : n <= m

\* the letter c comes ahead of the letter d: it is more frequent, or as
\* frequent and met earlier
Ahead(c, d) ==
    \/ Occurrences(c) > Occurrences(d)
    \/ Occurrences(c) = Occurrences(d) /\ FirstAppearance(c) < FirstAppearance(d)

\* C23: letters of equal count are returned in the order of their first
\* appearance in the scan of the dictionary, so for k >= 0
\* get_most_common_letters(k) is one sequence fixed by the word sequence,
\* the first k letters in the order "more frequent, or as frequent and met
\* earlier", and it is a prefix of get_most_common_letters(k + 1).
C23_TiesInOrderOfFirstAppearance ==
    (Asked("get_most_common_letters") /\ answer.arg >= 0) =>
        LET entries == answer.value
            returned == {entries[j][1] : j \in 1..Len(entries)}
            longer == get_most_common_letters(words, answer.arg + 1)
        IN /\ \A i, j \in 1..Len(entries) :
                  i < j => Ahead(entries[i][1], entries[j][1])
           /\ \A c \in LettersInUse \ returned :
                  \A d \in returned : Ahead(d, c)
           /\ Len(entries) <= Len(longer)
           /\ entries = SubSeq(longer, 1, Len(entries))

\* of two letters of the same count the one met first is returned and the
\* other, first in the alphabet, is left out
C23_Witness ==
    /\ Asked("get_most_common_letters")
    /\ answer.arg = 1
    /\ answer.value = <<(<<"c", 2>>)>>
    /\ Occurrences("a") = 2

(***************************************************************************)
(* Properties of update_used_letters, checked under SpecKeyboard.          *)
(***************************************************************************)
\* Correct > Present > Absent
Rank(status) ==
    CASE status = "correct" -> 3
      [] status = "wrong_position" -> 2
      [] status = "not_in_word" -> 1

Guessed(n) == gpc # "idle" /\ n \in 1..Len(guesses)

\* C21: every guess the game loop handed to process_guess, and so to
\* calculate_guess_result, is one validate_guess accepts: five characters,
\* all of them lower-case letters, and a word of the session's dictionary;
\* the target it is scored against has five characters too, so no scoring
\* call of a game leaves by an exception and every guess has its result.
C21_ScoredGuessesAreValid ==
    /\ \A n \in 1..Len(guesses) :
           Guessed(n) =>
               /\ Len(guesses[n]) = 5
               /\ \A k \in 1..Len(guesses[n]) : guesses[n][k] \in LowerCase
               /\ guesses[n] \in Range(words)
               /\ guesses[n] \in word_set
               /\ validate_guess(word_set, guesses[n])[1]
               /\ Len(target_word.value) = 5
    /\ gpc # "idle" => Len(results) = Len(guesses)
    /\ failure # "IndexError"

\* a guess typed in capitals with a blank behind it is scored in its
\* lower-case form
C21_Witness ==
    /\ Guessed(2)
    /\ typed = <<"C", "A", "B", "C", "A", " ">>
    /\ guesses[2] = W4
    /\ Len(results) = 2

\* a session whose dictionary is empty
EmptyDictionary == gpc \in {"play", "guess", "again", "done"} /\ words = <<>>

\* C22: in a session whose dictionary is empty start_new_game raises the
\* "no valid words" error and play ends: no prompt for a guess is reached,
\* no guess is taken or scored, and neither the statistics in memory nor
\* the statistics file change.
C22_EmptyDictionaryEndsSession ==
    /\ [](EmptyDictionary =>
              /\ gpc \in {"play", "done"}
              /\ gpc = "done" <=> failure = "ValueError"
              /\ target_word = NoTarget
              /\ guesses = <<>> /\ results = <<>> /\ attempts = 0
              /\ used_letters = EmptyDict
              /\ calls = <<>>
              /\ stats = load_statistics(stats_file))
    /\ [][(EmptyDictionary /\ gpc = "play") =>
              /\ gpc' = "done"
              /\ failure' = "ValueError"
              /\ stats' = stats
              /\ stats_file' = stats_file]_vars

\* a session on an empty dictionary that loaded the statistics of a won
\* game has ended by the error
C22_Witness ==
    /\ EmptyDictionary
    /\ failure = "ValueError"
    /\ stats_file.exists
    /\ stats.games_won = 1
    /\ stats = load_statistics(stats_file)

\* the letters of the guesses of the game in hand
GuessedLetters == UNION {Range(guesses[n]) : n \in 1..Len(guesses)}

\* some guess of the game in hand holds c where the target holds c
HeldInPlace(c) ==
    \E n \in 1..Len(guesses) :
        \E k \in 1..Len(guesses[n]) :
            guesses[n][k] = c /\ target_word.value[k] = c

LastGuessIsTarget ==
    guesses # <<>> /\ guesses[Len(guesses)] = target_word.value

\* the most recent result of the game in hand is Correct at every position
LastResultAllCorrect ==
    results # <<>> /\ Range(results[Len(results)]) = {"correct"}

\* C25: at every prompt and after play, attempts counts the guesses and
\* the results and lies in 0..6; game_won holds exactly when the most
\* recent guess is the target word, which is exactly when the most recent
\* result is all Correct; and start_new_game, when it starts a game, leaves
\* guesses, results and keyboard state empty, attempts 0 and game_won False.
C25_GameStateConsistent ==
    /\ [](gpc # "idle" =>
              /\ attempts = Len(guesses)
              /\ attempts = Len(results)
              /\ attempts \in 0..max_attempts
              /\ game_won <=> LastGuessIsTarget
              /\ game_won <=> LastResultAllCorrect)
    /\ [][(gpc = "play" /\ gpc' # "done") =>
              /\ guesses' = <<>>
              /\ results' = <<>>
              /\ used_letters' = EmptyDict
              /\ attempts' = 0
              /\ game_won' = FALSE
              /\ ~target_word'.none]_vars

\* the second game of a session whose first game was won at the sixth
\* guess has started
C25_Witness ==
    /\ gpc = "guess"
    /\ games = 2
    /\ stats.games_won = 1
    /\ IntKey(6) \in DOMAIN stats.guess_distribution
    /\ stats.guess_distribution[IntKey(6)] = 1
    /\ attempts = 0 /\ guesses = <<>> /\ results = <<>>
    /\ used_letters = EmptyDict
    /\ ~game_won

(***************************************************************************)
(* Termination of a game, checked under SpecGameFair.                      *)
(***************************************************************************)
\* C26: a game that has started, with a player who at every prompt for a
\* guess sooner or later types a quit word or a guess the game accepts,
\* comes to its end, and to one end only: a win (the last guess is the
\* target), a loss (six guesses, none the target) or a quit (fewer than six
\* guesses, none the target); the prompt for a guess is reached only while
\* the game has no end yet, is not won and has fewer than six guesses.
C26_EveryGameEnds ==
    /\ [](gpc = "guess" =>
              /\ ending = "none"
              /\ ~game_won
              /\ attempts < max_attempts)
    /\ [](gpc = "again" => ending \in {"win", "loss", "quit"})
    /\ [](/\ ending = "win" => game_won /\ attempts \in 1..max_attempts
          /\ ending = "loss" => ~game_won /\ attempts = max_attempts
          /\ ending = "quit" => ~game_won /\ attempts < max_attempts)
    /\ (gpc = "guess") ~> (gpc # "guess" /\ ending \in {"win", "loss", "quit"})

\* a game lost at its sixth guess
C26_Witness ==
    /\ gpc = "again"
    /\ ending = "loss"
    /\ Len(guesses) = max_attempts
    /\ typed = W2

(***************************************************************************)
(* Properties of the statistics, checked under SpecGame.                   *)
(***************************************************************************)
\* the count the histogram of st holds for n attempts, whichever the type
\* of its keys
Bucket(st, n) ==
    LET distribution == st.guess_distribution
    IN IF IntKey(n) \in DOMAIN distribution THEN distribution[IntKey(n)]
       ELSE IF StrKey(n) \in DOMAIN distribution THEN distribution[StrKey(n)]
       ELSE 0

\* the calls of update_statistics the guesses of the game in hand call for
CallsDue ==
    IF LastGuessIsTarget THEN <<(<<TRUE, Len(guesses)>>)>>
    ELSE IF Len(guesses) = max_attempts THEN <<(<<FALSE, max_attempts>>)>>
    ELSE <<>>

\* the statistics st with one more game in them, won at the n-th attempt
\* or lost
Recorded(st, after, won, n) ==
    /\ after.games_played = st.games_played + 1
    /\ after.games_won = st.games_won + (IF won THEN 1 ELSE 0)
    /\ \A m \in 1..max_attempts :
           Bucket(after, m) = Bucket(st, m) + (IF won /\ m = n THEN 1 ELSE 0)

\* C27: update_statistics is called once in a game that ends in a win or
\* a loss, with True and the number of the winning guess for a win, a sixth
\* guess that is the target included, and with False for a loss, and is not
\* called in a game the player quits; the statistics in memory and in the
\* file then hold exactly that one game more, and they do not change at
\* any other step of a game.
C27_StatisticsOncePerGame ==
    /\ [](gpc # "idle" =>
              /\ calls = CallsDue
              /\ ending = "quit" => calls = <<>>)
    /\ [][(gpc \in {"play", "guess", "again"}) =>
              (IF calls' # calls /\ calls' # <<>>
               THEN /\ Recorded(stats, stats', calls'[1][1], calls'[1][2])
                    /\ stats_file'.exists
                    /\ Recorded(load_statistics(stats_file),
                                stats_file'.content,
                                calls'[1][1], calls'[1][2])
               ELSE (stats' = stats /\ stats_file' = stats_file))]_vars

\* the sum of the histogram of st over the keys 1..n
RECURSIVE HistogramSum(_, _)
HistogramSum(st, n) ==
    IF n = 0 THEN 0 ELSE HistogramSum(st, n - 1) + Bucket(st, n)

\* C28: the statistics of a session, whether they started from the
\* defaults or from a file save_statistics wrote, have games_won <=
\* games_played and current_streak <= max_streak, have current_streak 0
\* right after a loss, and have a histogram whose counts over the keys 1..6
\* sum to games_won (every won game added one to one bucket).
C28_StatisticsRecord ==
    gpc # "idle" =>
        /\ stats.games_won <= stats.games_played
        /\ stats.current_streak <= stats.max_streak
        /\ (ending = "loss" /\ gpc = "again") => stats.current_streak = 0
        /\ HistogramSum(stats, max_attempts) = stats.games_won
====
